---- MODULE Spec2Model ----
\* A model of src/src/app.py: Kaplan-Meier survival analysis of a subject table.
\* Tables are pandas DataFrames: a set of column names and a sequence of rows,
\* each row carrying its index label (idx) and one cell per column.  A Series is
\* a sequence of [idx, val] entries.  Series and DataFrames keep their index
\* labels because the code mixes positional (iloc / numpy) and label-aligned
\* (boolean Series indexing, DataFrame construction) operations.
EXTENDS Integers, Sequences, FiniteSets, TLC

VARIABLES pc, data, type, label, subsets, unique_labels, survival_days,
          exit_status, survival_functions, censored_dfs, files, logrank_args, ret

vars == <<pc, data, type, label, subsets, unique_labels, survival_days,
          exit_status, survival_functions, censored_dfs, files, logrank_args, ret>>

\* ------------------------------------------------------------------ bounds
MaxRows == 3        \* rows of the input table of a run of main
MaxSubsetRows == 2  \* rows of a subset handed to get_survival_days
MaxStatusRows == 2  \* rows of a subset handed to get_exit_status
MaxLabelRows == 4   \* rows of a table handed to get_labels / get_subsets

\* ------------------------------------------------------------------ cells
\* A cell of a date, day-count or duration column.
NA == [k |-> "na", v |-> 0]          \* a missing cell: NaN / NaT
Bad == [k |-> "bad", v |-> 0]        \* a string that is neither a number nor a date
Num(n) == [k |-> "num", v |-> n]     \* a number
Date(d) == [k |-> "date", v |-> d]   \* a parseable date, as a day number

\* String-valued cells (label, sample_id, vital_status, progression_status)
\* are strings; "NA" is the missing cell (read_csv reads it as NaN).
NaStr == "NA"

AllColumns == {"sample_id", "label", "diagnosis_date",
               "vital_status_change_date", "progression_status_change_date",
               "vital_status_change_day", "progression_status_change_day",
               "vital_status", "progression_status"}

StrColumns == {"sample_id", "label", "vital_status", "progression_status"}

Types == {"vital", "progress", "other"}

\* ------------------------------------------------------------------ results
Ok(x) == [ok |-> TRUE, err |-> "", val |-> x]
Raise(e) == [ok |-> FALSE, err |-> e, val |-> <<>>]

\* ------------------------------------------------------------------ pandas
Range(n) == 1..n

\* data[c]: the column as a Series carrying the frame's index.
Column(df, c) == [i \in Range(Len(df.rows)) |-> [idx |-> df.rows[i].idx, val |-> df.rows[i][c]]]

\* s.iloc[mask] / df.iloc[mask, :]: the entries at the positions where mask is true.
ILocMask(s, mask) ==
    LET F[i \in 0..Len(s)] ==
            IF i = 0 THEN <<>>
            ELSE IF mask[i] THEN Append(F[i - 1], s[i]) ELSE F[i - 1]
    IN F[Len(s)]

\* pd.to_datetime(series): raises on an unparseable cell, NaT for a missing one.
to_datetime(s) ==
    IF \E i \in Range(Len(s)) : s[i].val.k \notin {"na", "date"}
    THEN Raise("ValueError")
    ELSE Ok(s)

\* series.astype(float): raises on a non-numeric string, NaN for a missing cell.
astype_float(s) ==
    IF \E i \in Range(Len(s)) : s[i].val.k \notin {"na", "num"}
    THEN Raise("ValueError")
    ELSE Ok(s)

\* series.isna() == False, as a positional boolean array.
NotNa(s) == [i \in Range(Len(s)) |-> s[i].val.k # "na"]

\* ------------------------------------------------------------------ app.py
get_survival_days_from_dates(df, census_date_column) ==
    IF census_date_column \notin {"vital_status_change_date", "progression_status_change_date"}
    THEN Raise("ValueError")
    ELSE IF census_date_column \notin df.columns THEN Raise("ValueError")
    ELSE IF "diagnosis_date" \notin df.columns THEN Raise("KeyError")
    ELSE LET diag_date == to_datetime(Column(df, "diagnosis_date"))
             census_date == to_datetime(Column(df, census_date_column))
         IN IF ~diag_date.ok THEN diag_date
            ELSE IF ~census_date.ok THEN census_date
            ELSE LET days == [i \in Range(Len(df.rows)) |->
                                [idx |-> df.rows[i].idx,
                                 val |-> IF census_date.val[i].val.k = "date"
                                            /\ diag_date.val[i].val.k = "date"
                                         THEN Num(census_date.val[i].val.v - diag_date.val[i].val.v)
                                         ELSE NA]]
                 IN Ok([days |-> days, success |-> NotNa(days)])

\* The column line 58 reads.
DayColumnRead(census_day_column) == "vital_status_change_day"

get_survival_days_from_days(df, census_day_column) ==
    IF census_day_column \notin {"vital_status_change_day", "progression_status_change_day"}
    THEN Raise("ValueError")
    ELSE IF census_day_column \notin df.columns THEN Raise("ValueError")
    ELSE IF DayColumnRead(census_day_column) \notin df.columns THEN Raise("KeyError")
    ELSE LET days == astype_float(Column(df, DayColumnRead(census_day_column)))
         IN IF ~days.ok THEN days
            ELSE Ok([days |-> days.val, success |-> NotNa(days.val)])

get_survival_columns(t) ==
    IF t \notin {"progress", "vital"} THEN Raise("ValueError")
    ELSE IF t = "progress"
         THEN Ok(<<"progression_status_change_date", "progression_status_change_day">>)
         ELSE Ok(<<"vital_status_change_date", "vital_status_change_day">>)

\* The result is indexed range(len(data)) (line 92) and both assignments are
\* positional: .iloc with a boolean array on either side (lines 96, 98).
get_survival_days(df, t) ==
    LET cols == get_survival_columns(t)
    IN IF ~cols.ok THEN cols
       ELSE LET r1 == get_survival_days_from_dates(df, cols.val[1])
            IN IF ~r1.ok THEN r1
               ELSE LET r2 == get_survival_days_from_days(df, cols.val[2])
                    IN IF ~r2.ok THEN r2
                       ELSE Ok([i \in Range(Len(df.rows)) |->
                                  [idx |-> i - 1,
                                   val |-> IF r1.val.success[i]
                                           THEN r1.val.days[i].val
                                           ELSE r2.val.days[i].val]])

\* A get_exit_status that takes vital_status itself as the indicator.
get_exit_status_not_negated(df, t) ==
    IF t \notin {"progress", "vital"} THEN Raise("ValueError")
    ELSE IF t = "vital"
         THEN IF "vital_status" \notin df.columns THEN Raise("KeyError")
              ELSE Ok([i \in Range(Len(df.rows)) |->
                         [idx |-> df.rows[i].idx, val |-> df.rows[i]["vital_status"] = "True"]])
         ELSE IF "progression_status" \notin df.columns THEN Raise("KeyError")
              ELSE Ok([i \in Range(Len(df.rows)) |->
                         [idx |-> df.rows[i].idx, val |-> df.rows[i]["progression_status"] = "True"]])

\* data["vital_status"] == False and data["progression_status"] == True: both
\* comparisons are False on a missing cell.  The result keeps the subset's index.
get_exit_status(df, t) ==
    IF t \notin {"progress", "vital"} THEN Raise("ValueError")
    ELSE IF t = "vital"
         THEN IF "vital_status" \notin df.columns THEN Raise("KeyError")
              ELSE Ok([i \in Range(Len(df.rows)) |->
                         [idx |-> df.rows[i].idx, val |-> df.rows[i]["vital_status"] = "False"]])
         ELSE IF "progression_status" \notin df.columns THEN Raise("KeyError")
              ELSE Ok([i \in Range(Len(df.rows)) |->
                         [idx |-> df.rows[i].idx, val |-> df.rows[i]["progression_status"] = "True"]])

\* Without a label column: len(data) zeros as strings, on a fresh range index.
get_labels(df) ==
    IF "label" \notin df.columns
    THEN [i \in Range(Len(df.rows)) |-> [idx |-> i - 1, val |-> "0"]]
    ELSE Column(df, "label")

\* series.unique(): the values in first-occurrence order, NaN among them (once).
Unique(s) ==
    LET F[i \in 0..Len(s)] ==
            IF i = 0 THEN <<>>
            ELSE IF \E j \in Range(Len(F[i - 1])) : F[i - 1][j] = s[i].val
                 THEN F[i - 1]
                 ELSE Append(F[i - 1], s[i].val)
    IN F[Len(s)]

\* series == l, elementwise: NaN equals nothing, itself included.
EqMask(s, l) == [i \in Range(Len(s)) |-> s[i].val # NaStr /\ s[i].val = l]

get_subsets(df, lab) ==
    LET u == Unique(lab)
    IN [subsets |-> [g \in Range(Len(u)) |->
                        [columns |-> df.columns, rows |-> ILocMask(df.rows, EqMask(lab, u[g]))]],
        labels |-> u]

\* The index labels of a Series, as a set and as a sequence.
IdxSet(s) == {s[i].idx : i \in Range(Len(s))}
IdxSeq(s) == [i \in Range(Len(s)) |-> s[i].idx]

RECURSIVE SortedSeq(_)
SortedSeq(S) ==
    IF S = {} THEN <<>>
    ELSE LET m == CHOOSE x \in S : \A y \in S : x <= y
         IN <<m>> \o SortedSeq(S \ {m})

\* The value a Series holds at an index label, or the given missing value.
AtIdx(s, ix, missing) ==
    IF \E i \in Range(Len(s)) : s[i].idx = ix
    THEN s[CHOOSE i \in Range(Len(s)) : s[i].idx = ix].val
    ELSE missing

\* pd.DataFrame({"sample_id": a, "days_at_censoring": b}): the two Series are
\* aligned on the union of their indexes (sorted when the indexes differ).
DataFrameOf(sample_id, days_at_censoring) ==
    LET index == IF IdxSeq(sample_id) = IdxSeq(days_at_censoring)
                 THEN IdxSeq(sample_id)
                 ELSE SortedSeq(IdxSet(sample_id) \cup IdxSet(days_at_censoring))
    IN [i \in Range(Len(index)) |->
          [idx |-> index[i],
           sample_id |-> AtIdx(sample_id, index[i], NaStr),
           days_at_censoring |-> AtIdx(days_at_censoring, index[i], NA)]]

\* ids[censored] selects by index label; survival_days.iloc[np.array(censored)]
\* selects by position.
get_censored_df(sd, es, ids) ==
    LET censored == [i \in Range(Len(es)) |-> [idx |-> es[i].idx, val |-> es[i].val = FALSE]]
        sample_id == ILocMask(ids, [i \in Range(Len(ids)) |-> AtIdx(censored, ids[i].idx, FALSE)])
        days_at_censoring == ILocMask(sd, [i \in Range(Len(censored)) |-> censored[i].val])
    IN DataFrameOf(sample_id, days_at_censoring)

\* kaplan_meier_estimator is a library call.  It validates its input and
\* raises on an empty group and on a missing duration; its table is kept as the
\* inputs it was computed from.
EstimatorAccepts(sd, es) ==
    /\ Len(sd) > 0
    /\ \A i \in Range(Len(sd)) : sd[i].val.k # "na"

estimate_survival_function(sd, es) == [time_of |-> sd, status_of |-> es]

RECURSIVE Concat(_)
\* pd.concat(list of Series): the entries in list order, index labels kept.
Concat(ss) == IF ss = <<>> THEN <<>> ELSE Head(ss) \o Concat(Tail(ss))

\* ------------------------------------------------------------------ inputs
\* load_data: the rows of input.tsv on a range index; sample ids are unique.
SampleIds == <<"s0", "s1", "s2", "s3", "s4", "s5">>

Missing(c) == IF c \in StrColumns THEN NaStr ELSE NA

MkRow(i, cells) ==
    [idx |-> i - 1,
     sample_id |-> SampleIds[i],
     label |-> cells.label,
     diagnosis_date |-> cells.diagnosis_date,
     vital_status_change_date |-> cells.vital_status_change_date,
     progression_status_change_date |-> cells.progression_status_change_date,
     vital_status_change_day |-> cells.vital_status_change_day,
     progression_status_change_day |-> cells.progression_status_change_day,
     vital_status |-> cells.vital_status,
     progression_status |-> cells.progression_status]

\* The cells of one row: a column the table lacks holds nothing.
RowCells(cols, D) ==
    LET X(c) == IF c \in cols THEN D[c] ELSE {Missing(c)}
    IN [label : X("label"),
        diagnosis_date : X("diagnosis_date"),
        vital_status_change_date : X("vital_status_change_date"),
        progression_status_change_date : X("progression_status_change_date"),
        vital_status_change_day : X("vital_status_change_day"),
        progression_status_change_day : X("progression_status_change_day"),
        vital_status : X("vital_status"),
        progression_status : X("progression_status")]

\* data is a table of at most maxn rows over one of the column sets.
IsTable(df, colsets, D, maxn) ==
    \E cols \in colsets, n \in 0..maxn :
        \E cells \in [Range(n) -> RowCells(cols, D)] :
            df = [columns |-> cols, rows |-> [i \in Range(n) |-> MkRow(i, cells[i])]]

\* Tables of a run of main.
MainDomains ==
    [label |-> {"A", "B", NaStr},
     diagnosis_date |-> {Date(1)},
     vital_status_change_date |-> {NA, Date(3), Bad},
     progression_status_change_date |-> {NA},
     vital_status_change_day |-> {Num(5)},
     progression_status_change_day |-> {Num(7)},
     vital_status |-> {"True", "False"},
     progression_status |-> {"False"}]

\* The analysis type of a run and the columns of its input table.
MainConfigs ==
    {<<"vital", AllColumns>>,
     <<"vital", AllColumns \ {"label"}>>,
     <<"vital", AllColumns \ {"vital_status_change_day"}>>,
     <<"vital", AllColumns \ {"vital_status"}>>,
     <<"progress", AllColumns \ {"vital_status_change_date"}>>,
     <<"other", AllColumns \ {"vital_status_change_date"}>>}

\* Subsets handed to get_survival_days.
DaysDomains ==
    [label |-> {"A"},
     diagnosis_date |-> {NA, Date(5)},
     vital_status_change_date |-> {NA, Date(3), Date(8), Bad},
     progression_status_change_date |-> {NA, Date(9)},
     vital_status_change_day |-> {NA, Num(-2), Num(42), Bad},
     progression_status_change_day |-> {NA, Num(7)},
     vital_status |-> {"True"},
     progression_status |-> {"True"}]

DaysColumnSets ==
    {AllColumns, AllColumns \ {"vital_status_change_day"},
     AllColumns \ {"progression_status_change_day"},
     AllColumns \ {"vital_status_change_date"}}

\* Subsets handed to get_exit_status.
StatusDomains ==
    [label |-> {"A"},
     diagnosis_date |-> {Date(1)},
     vital_status_change_date |-> {Date(3)},
     progression_status_change_date |-> {Date(4)},
     vital_status_change_day |-> {NA},
     progression_status_change_day |-> {NA},
     vital_status |-> {"True", "False", NaStr},
     progression_status |-> {"True", "False", NaStr}]

StatusColumnSets ==
    {AllColumns, AllColumns \ {"vital_status"}, AllColumns \ {"progression_status"}}

\* Tables handed to get_labels and get_subsets.
LabelDomains ==
    [label |-> {"A", "B", NaStr},
     diagnosis_date |-> {Date(1)},
     vital_status_change_date |-> {Date(3)},
     progression_status_change_date |-> {Date(4)},
     vital_status_change_day |-> {NA},
     progression_status_change_day |-> {NA},
     vital_status |-> {"True"},
     progression_status |-> {"True"}]

LabelColumnSets == {AllColumns, AllColumns \ {"label"}}

\* ------------------------------------------------------------------ main
At(phase, g) == [phase |-> phase, g |-> g]

NextPhase(p) ==
    CASE p = "resolve" -> "classify"
      [] p = "classify" -> "estimate"
      [] p = "estimate" -> "write"
      [] p = "write" -> "compare"

\* A main that takes each group through all its steps before the next group.
AdvancePerGroup(p, g, n) ==
    IF p # "write" THEN At(NextPhase(p), g)
    ELSE IF g < n THEN At("resolve", g + 1) ELSE At("compare", 1)

\* main runs each comprehension / loop over all groups before the next one
\* (lines 233, 234, 242, 245): where control goes after step p of group g of n.
Advance(p, g, n) ==
    IF g < n THEN At(p, g + 1) ELSE At(NextPhase(p), 1)

\* A gate that is off by one.
MoreThanTwoGroups(u) == Len(u) > 2

\* line 250: len(unique_labels) > 1
MoreThanOneGroup(u) == Len(u) > 1

Idle ==
    /\ label = <<>> /\ subsets = <<>> /\ unique_labels = <<>>
    /\ survival_days = <<>> /\ exit_status = <<>>
    /\ survival_functions = <<>> /\ censored_dfs = <<>>
    /\ files = <<>> /\ logrank_args = <<>> /\ ret = <<>>

Init ==
    /\ pc = At("start", 0)
    /\ \E cfg \in MainConfigs :
          /\ type = cfg[1]
          /\ IsTable(data, {cfg[2]}, MainDomains, MaxRows)
    /\ Idle

Abort(r) ==
    /\ pc' = At("aborted", 0)
    /\ ret' = r

\* lines 229-231
GetLabelsAndSubsets ==
    /\ pc.phase = "start"
    /\ label' = get_labels(data)
    /\ LET r == get_subsets(data, get_labels(data))
       IN /\ subsets' = r.subsets
          /\ unique_labels' = r.labels
          /\ pc' = IF Len(r.labels) = 0 THEN At("estimate", 1) ELSE At("resolve", 1)
    /\ UNCHANGED <<data, type, survival_days, exit_status, survival_functions,
                   censored_dfs, files, logrank_args, ret>>

\* line 233, one subset
ResolveGroup ==
    /\ pc.phase = "resolve"
    /\ LET r == get_survival_days(subsets[pc.g], type)
       IN IF r.ok
          THEN /\ survival_days' = Append(survival_days, r.val)
               /\ pc' = Advance("resolve", pc.g, Len(subsets))
               /\ UNCHANGED ret
          ELSE /\ Abort(r)
               /\ UNCHANGED survival_days
    /\ UNCHANGED <<data, type, label, subsets, unique_labels, exit_status,
                   survival_functions, censored_dfs, files, logrank_args>>

\* line 234, one subset
ClassifyGroup ==
    /\ pc.phase = "classify"
    /\ LET r == get_exit_status(subsets[pc.g], type)
       IN IF r.ok
          THEN /\ exit_status' = Append(exit_status, r.val)
               /\ pc' = Advance("classify", pc.g, Len(subsets))
               /\ UNCHANGED ret
          ELSE /\ Abort(r)
               /\ UNCHANGED exit_status
    /\ UNCHANGED <<data, type, label, subsets, unique_labels, survival_days,
                   survival_functions, censored_dfs, files, logrank_args>>

\* line 242, one group: the estimator returned
EstimateGroup ==
    /\ pc.phase = "estimate"
    /\ Len(subsets) > 0
    /\ "sample_id" \in subsets[pc.g].columns
    /\ EstimatorAccepts(survival_days[pc.g], exit_status[pc.g])
    /\ survival_functions' = Append(survival_functions,
            estimate_survival_function(survival_days[pc.g], exit_status[pc.g]))
    /\ censored_dfs' = Append(censored_dfs,
            get_censored_df(survival_days[pc.g], exit_status[pc.g],
                            Column(subsets[pc.g], "sample_id")))
    /\ pc' = Advance("estimate", pc.g, Len(subsets))
    /\ UNCHANGED <<data, type, label, subsets, unique_labels, survival_days,
                   exit_status, files, logrank_args, ret>>

\* line 242: no group to unpack, no sample_id column, or the estimator raised
EstimateRaises ==
    /\ pc.phase = "estimate"
    /\ IF Len(subsets) = 0 THEN Abort(Raise("ValueError"))
       ELSE IF "sample_id" \notin subsets[pc.g].columns THEN Abort(Raise("AttributeError"))
       ELSE Abort(Raise("ValueError"))
    /\ UNCHANGED <<data, type, label, subsets, unique_labels, survival_days,
                   exit_status, survival_functions, censored_dfs, files, logrank_args>>

\* lines 245-247, one group
WriteGroup ==
    /\ pc.phase = "write"
    /\ files' = files \o
          <<[name |-> "result", label |-> unique_labels[pc.g],
             content |-> survival_functions[pc.g]],
            [name |-> "censored", label |-> unique_labels[pc.g],
             content |-> censored_dfs[pc.g]]>>
    /\ pc' = Advance("write", pc.g, Len(subsets))
    /\ UNCHANGED <<data, type, label, subsets, unique_labels, survival_days,
                   exit_status, survival_functions, censored_dfs, logrank_args, ret>>

\* What line 251 hands to logrank_test.
LogrankArgs ==
    [survival_days |-> Concat(survival_days),
     exit_status |-> Concat(exit_status),
     label |-> label]

\* lines 250-252: compare_survival returned
CompareGroups ==
    /\ pc.phase = "compare"
    /\ MoreThanOneGroup(unique_labels)
    /\ logrank_args' = <<LogrankArgs>>
    /\ files' = Append(files, [name |-> "logrank_test", label |-> "", content |-> <<>>])
    /\ pc' = At("done", 0)
    /\ UNCHANGED <<data, type, label, subsets, unique_labels, survival_days,
                   exit_status, survival_functions, censored_dfs, ret>>

\* lines 250-251: compare_survival raised
CompareRaises ==
    /\ pc.phase = "compare"
    /\ MoreThanOneGroup(unique_labels)
    /\ logrank_args' = <<LogrankArgs>>
    /\ Abort(Raise("ValueError"))
    /\ UNCHANGED <<data, type, label, subsets, unique_labels, survival_days,
                   exit_status, survival_functions, censored_dfs, files>>

\* line 250: one group, nothing to compare
SkipCompare ==
    /\ pc.phase = "compare"
    /\ ~MoreThanOneGroup(unique_labels)
    /\ pc' = At("done", 0)
    /\ UNCHANGED <<data, type, label, subsets, unique_labels, survival_days,
                   exit_status, survival_functions, censored_dfs, files,
                   logrank_args, ret>>

Next ==
    \/ GetLabelsAndSubsets
    \/ ResolveGroup
    \/ ClassifyGroup
    \/ EstimateGroup
    \/ EstimateRaises
    \/ WriteGroup
    \/ CompareGroups
    \/ CompareRaises
    \/ SkipCompare

Spec == Init /\ [][Next]_vars

\* ------------------------------------------------------------------ single calls
\* get_survival_days called once on a subset.
InitDays ==
    /\ pc = At("call_get_survival_days", 0)
    /\ type \in Types
    /\ IsTable(data, DaysColumnSets, DaysDomains, MaxSubsetRows)
    /\ Idle

CallGetSurvivalDays ==
    /\ pc.phase = "call_get_survival_days"
    /\ ret' = get_survival_days(data, type)
    /\ pc' = At("returned_get_survival_days", 0)
    /\ UNCHANGED <<data, type, label, subsets, unique_labels, survival_days,
                   exit_status, survival_functions, censored_dfs, files, logrank_args>>

SpecDays == InitDays /\ [][CallGetSurvivalDays]_vars

\* get_exit_status called once on a subset.
InitExit ==
    /\ pc = At("call_get_exit_status", 0)
    /\ type \in Types
    /\ IsTable(data, StatusColumnSets, StatusDomains, MaxStatusRows)
    /\ Idle

CallGetExitStatus ==
    /\ pc.phase = "call_get_exit_status"
    /\ ret' = get_exit_status(data, type)
    /\ pc' = At("returned_get_exit_status", 0)
    /\ UNCHANGED <<data, type, label, subsets, unique_labels, survival_days,
                   exit_status, survival_functions, censored_dfs, files, logrank_args>>

SpecExit == InitExit /\ [][CallGetExitStatus]_vars

\* get_subsets(data, get_labels(data)) called once on a table.
InitSubsets ==
    /\ pc = At("call_get_subsets", 0)
    /\ type \in {"vital"}
    /\ IsTable(data, LabelColumnSets, LabelDomains, MaxLabelRows)
    /\ Idle

CallGetSubsets ==
    /\ pc.phase = "call_get_subsets"
    /\ ret' = get_subsets(data, get_labels(data))
    /\ pc' = At("returned_get_subsets", 0)
    /\ UNCHANGED <<data, type, label, subsets, unique_labels, survival_days,
                   exit_status, survival_functions, censored_dfs, files, logrank_args>>

SpecSubsets == InitSubsets /\ [][CallGetSubsets]_vars

\* ------------------------------------------------------------------ properties
\* The columns the specification assigns to an analysis type.
DateColOf(t) == IF t = "progress" THEN "progression_status_change_date" ELSE "vital_status_change_date"
DayColOf(t) == IF t = "progress" THEN "progression_status_change_day" ELSE "vital_status_change_day"

\* A subject has a valid date pair: both dates present and parseable.
ValidPair(row, t) == row.diagnosis_date.k = "date" /\ row[DateColOf(t)].k = "date"

DaysReturned == pc.phase = "returned_get_survival_days" /\ ret.ok

\* C1: for type vital or progress and every subject of the subset handed to
\* get_survival_days, a valid date pair resolves to follow-up date minus
\* diagnosis date in days, and a subject without one but with a valid
\* day-count of the type resolves to that day-count.
C1_DurationFallback ==
    DaysReturned =>
        \A i \in Range(Len(data.rows)) :
            LET row == data.rows[i]
            IN /\ ValidPair(row, type) =>
                    ret.val[i].val = Num(row[DateColOf(type)].v - row.diagnosis_date.v)
               /\ (~ValidPair(row, type) /\ row[DayColOf(type)].k = "num") =>
                    ret.val[i].val = row[DayColOf(type)]

\* C2: the day-count tier reads the day-count column of the analysis type:
\* every subject that failed the date tier gets the cell of
\* vital_status_change_day for type vital and of progression_status_change_day
\* for type progress.
C2_DayColumnFollowsType ==
    DaysReturned =>
        \A i \in Range(Len(data.rows)) :
            ~ValidPair(data.rows[i], type) => ret.val[i].val = data.rows[i][DayColOf(type)]

\* The table with one cell replaced, and the table without a column.
WithCell(df, i, c, v) == [df EXCEPT !.rows[i][c] = v]
WithoutColumn(df, c) ==
    [columns |-> df.columns \ {c},
     rows |-> [i \in Range(Len(df.rows)) |-> [df.rows[i] EXCEPT ![c] = Missing(c)]]]

\* Two calls end alike: both raise, or both return the same durations.
SameOutcome(a, b) == a.ok = b.ok /\ (a.ok => a.val = b.val)

\* C3: tier 2 is never consulted for a subject that succeeded tier 1: the
\* outcome of get_survival_days (durations, and whether it raises) is the same
\* whatever that subject's day-count cell holds, and when every subject
\* succeeds tier 1 it is the same without the day-count column.
C3_TierTwoNotConsulted ==
    (pc.phase = "returned_get_survival_days" /\ type \in {"vital", "progress"}
       /\ DayColOf(type) \in data.columns) =>
        /\ \A i \in Range(Len(data.rows)) : \A v \in {NA, Bad, Num(42), Num(7)} :
              ValidPair(data.rows[i], type) =>
                  SameOutcome(get_survival_days(WithCell(data, i, DayColOf(type), v), type), ret)
        /\ (Len(data.rows) > 0 /\ \A i \in Range(Len(data.rows)) : ValidPair(data.rows[i], type)) =>
              SameOutcome(get_survival_days(WithoutColumn(data, DayColOf(type)), type), ret)

\* C10: every duration get_survival_days resolves is unresolved or >= 0.
C10_DurationsNonNegative ==
    DaysReturned =>
        \A i \in Range(Len(ret.val)) : ret.val[i].val.k = "na" \/ ret.val[i].val.v >= 0

\* C4: get_exit_status raises a configuration error for a type outside
\* {vital, progress}; otherwise it returns one indicator per subject of the
\* subset, true iff vital_status is false (type vital), true iff
\* progression_status is true (type progress).
C4_ExitStatus ==
    pc.phase = "returned_get_exit_status" =>
        IF type \notin {"vital", "progress"}
        THEN ~ret.ok /\ ret.err = "ValueError"
        ELSE LET c == IF type = "vital" THEN "vital_status" ELSE "progression_status"
             IN c \in data.columns =>
                  /\ ret.ok
                  /\ Len(ret.val) = Len(data.rows)
                  /\ \A i \in Range(Len(data.rows)) :
                        /\ ret.val[i].idx = data.rows[i].idx
                        /\ type = "vital" => (ret.val[i].val <=> data.rows[i].vital_status = "False")
                        /\ type = "progress" => (ret.val[i].val <=> data.rows[i].progression_status = "True")

\* C4 witness: a vital call returned an indicator that is true for a dead
\* subject and false for another subject.
C4_Witness ==
    /\ pc.phase = "returned_get_exit_status" /\ type = "vital" /\ ret.ok
    /\ \E i, j \in Range(Len(data.rows)) :
          /\ data.rows[i].vital_status = "False" /\ ret.val[i].val
          /\ data.rows[j].vital_status # "False" /\ ~ret.val[j].val

\* C5: the subsets get_subsets returns partition the table (every subject in
\* exactly one subset), keep the original row order, and the labels come in
\* first-occurrence order.
C5_Partition ==
    pc.phase = "returned_get_subsets" =>
        LET lab == get_labels(data)
            ss == ret.subsets
        IN /\ Len(ss) = Len(ret.labels)
           /\ \A r \in Range(Len(data.rows)) :
                 Cardinality({<<g, i>> \in Range(Len(ss)) \X Range(MaxLabelRows + 1) :
                                 i <= Len(ss[g].rows) /\ ss[g].rows[i] = data.rows[r]}) = 1
           /\ \A g \in Range(Len(ss)) : \A i, j \in Range(Len(ss[g].rows)) :
                 i < j => ss[g].rows[i].idx < ss[g].rows[j].idx
           /\ \A g, h \in Range(Len(ret.labels)) :
                 g < h => /\ ret.labels[g] # ret.labels[h]
                          /\ \E r \in Range(Len(lab)) :
                                /\ lab[r].val = ret.labels[g]
                                /\ \A q \in Range(Len(lab)) : lab[q].val = ret.labels[h] => r < q

\* The distinct values of the label series of the run (a missing label is one
\* value, as Series.unique counts it; without a label column every row is "0").
DistinctLabels ==
    IF "label" \in data.columns
    THEN {data.rows[i].label : i \in Range(Len(data.rows))}
    ELSE {"0" : i \in Range(Len(data.rows))}

ComparisonWritten == \E f \in Range(Len(files)) : files[f].name = "logrank_test"

\* C6: the comparator is invoked and logrank_test.tsv written only with at
\* least 2 distinct labels, and a run that ends normally has invoked it and
\* written the file iff there are at least 2; a run with one label that has
\* written its group's files does not fail afterwards; a table without a label
\* column is one group "0" of all subjects and compares nothing.
C6_ComparatorGate ==
    /\ (logrank_args # <<>> \/ ComparisonWritten) => Cardinality(DistinctLabels) >= 2
    /\ pc.phase = "done" =>
          /\ (logrank_args # <<>>) <=> (Cardinality(DistinctLabels) >= 2)
          /\ ComparisonWritten <=> (Cardinality(DistinctLabels) >= 2)
    /\ (Cardinality(DistinctLabels) < 2 /\ files # <<>>) => pc.phase # "aborted"
    /\ ("label" \notin data.columns /\ pc.phase \notin {"start"} /\ Len(data.rows) > 0) =>
          /\ unique_labels = <<"0">>
          /\ subsets[1].rows = data.rows
          /\ logrank_args = <<>> /\ ~ComparisonWritten

\* C6 witness: a run with two labels ended after the comparison was written.
C6_Witness ==
    /\ pc.phase = "done" /\ Cardinality(DistinctLabels) = 2
    /\ logrank_args # <<>> /\ ComparisonWritten

\* C7: a result or censored file is written only after duration resolution and
\* event classification have succeeded for every group; a run that aborts in
\* either has written nothing.
C7_NoPartialOutput ==
    /\ files # <<>> =>
          /\ Len(survival_days) = Len(subsets)
          /\ Len(exit_status) = Len(subsets)
    /\ (pc.phase = "aborted"
          /\ (Len(survival_days) < Len(subsets) \/ Len(exit_status) < Len(subsets))) =>
          files = <<>>

\* C7 witness: the first group was resolved, the second raised, and the run
\* aborted with no file written.
C7_Witness ==
    /\ pc.phase = "aborted" /\ Len(subsets) >= 2
    /\ Len(survival_days) = 1 /\ exit_status = <<>> /\ files = <<>>

\* The censored records a group should have: its subjects whose indicator is
\* false, each with its own sample_id and its own resolved duration, in order.
ExpectedCensored(g) ==
    LET rows == subsets[g].rows
    IN ILocMask([i \in Range(Len(rows)) |->
                   [sample_id |-> rows[i].sample_id,
                    days_at_censoring |-> survival_days[g][i].val]],
                [i \in Range(Len(rows)) |-> ~exit_status[g][i].val])

\* C8: for every group of a run, the censored-record table has exactly one row
\* per subject of the group whose event indicator is false, pairing that
\* subject's sample_id with that subject's duration, in row order.
C8_CensoredRecords ==
    pc.phase \in {"write", "compare", "done"} =>
      \A g \in Range(Len(censored_dfs)) :
        [i \in Range(Len(censored_dfs[g])) |->
            [sample_id |-> censored_dfs[g][i].sample_id,
             days_at_censoring |-> censored_dfs[g][i].days_at_censoring]]
          = ExpectedCensored(g)

\* The subject (index label of the input table) whose duration and indicator
\* stand at each position of the concatenated groups.
ConcatSubjects == Concat([g \in Range(Len(subsets)) |->
                            [i \in Range(Len(subsets[g].rows)) |-> subsets[g].rows[i].idx]])

\* C9: the i-th duration, the i-th event indicator and the i-th label handed
\* to logrank_test belong to the same subject, at every position.
C9_ComparatorAligned ==
    logrank_args # <<>> =>
        LET a == logrank_args[1]
        IN /\ Len(a.survival_days) = Len(a.label)
           /\ Len(a.exit_status) = Len(a.label)
           /\ \A i \in Range(Len(a.label)) :
                 /\ i <= Len(a.exit_status)
                 /\ a.exit_status[i].idx = a.label[i].idx
                 /\ ConcatSubjects[i] = a.label[i].idx
====
